---- MODULE Spec2Model ----
(***************************************************************************)
(* Model of midrasai/client/main.py: the blocking facade Midras and the    *)
(* cooperative facade AsyncMidras.  One behaviour is one call of one       *)
(* operation, made with the same inputs on both facades, each facade       *)
(* running at its own pace; the k-th request of either facade is answered  *)
(* by the k-th entry of one shared script of transport answers, so that    *)
(* the two facades can be compared under the same sequence of responses.   *)
(*                                                                         *)
(* Input units (page images, query strings) are identified by integers.    *)
(***************************************************************************)
EXTENDS Integers, Sequences, FiniteSets

\* ------------------------------------------------------------------ bounds
MaxPages == 3
MaxBatch == 2
MaxNegBatch == 1
MaxCredit == 1
MaxTexts == 2

\* ------------------------------------------------------- program constants
\* timeout=180 of every client.post
Timeout == 180
\* quantity: int = 5 of query / query_text
DefaultQuantity == 5
\* batch_size: int = 10 of embed_pdf
DefaultBatchSize == 10

Facades == {"Midras", "AsyncMidras"}
Ops == {"embed_pdf", "embed_images", "embed_text", "query"}

VARIABLES
    op,              \* the operation called on both facades
    images,          \* convert_from_path(pdf_path) / pil_images
    batch_size,
    include_images,
    texts,           \* texts of embed_queries / embed_text
    query_text,      \* query of query / query_text
    index,           \* index name of query / query_text
    quantity,
    script,          \* the transport's answers so far, in request order
    pc,              \* per facade: where the call stands
    it,              \* per facade: position in range(0, len(images), batch_size)
    embeddings,      \* per facade: the local list of embed_pdf
    total_spent,     \* per facade: the local counter of embed_pdf
    response,        \* per facade: the httpx response last received
    requests,        \* per facade: the requests posted, in order
    exchanges,       \* per facade: the answers received, in order
    folded,          \* per facade: chunks folded into embeddings/total_spent
    searches,        \* per facade: the calls of self.index.search, in order
    outcome          \* per facade: what the call returned or raised

inputs == <<op, images, batch_size, include_images, texts, query_text, index, quantity>>
locals == <<it, embeddings, total_spent, response, folded>>
vars == <<op, images, batch_size, include_images, texts, query_text, index,
          quantity, script, pc, it, embeddings, total_spent, response,
          requests, exchanges, folded, searches, outcome>>

\* ------------------------------------------------------- Python helpers
Min(a, b) == IF a < b THEN a ELSE b

\* list(range(start, stop, step)) for step # 0
RECURSIVE Range(_, _, _)
Range(start, stop, step) ==
    IF (step > 0 /\ start < stop) \/ (step < 0 /\ start > stop)
    THEN <<start>> \o Range(start + step, stop, step)
    ELSE <<>>

\* s[lo:hi] for 0 <= lo <= hi
Slice(s, lo, hi) == SubSeq(s, lo + 1, Min(hi, Len(s)))

None == <<>>
Some(x) == <<x>>

\* ------------------------------------------------ values crossing the wire
\* base64_encode_image_list: lossless, order-preserving, one string per image
base64_encode_image_list(pil_images) ==
    [j \in 1..Len(pil_images) |-> pil_images[j] + 100]

\* MidrasRequest(key, mode, base64images | queries).model_dump() posted to url
MidrasRequest(url, kind, payload) ==
    [url |-> url, kind |-> kind, mode |-> "standard", payload |-> payload,
     timeout |-> Timeout]

\* The remote service's embedding of one unit of a payload.
ServiceEmbed(unit) == unit + 1000

\* What the transport can answer: 200 with a well-formed body, 200 with a
\* body lacking the response fields, 4xx and 5xx with an error body, or no
\* answer at all (the exchange raises, e.g. on timeout).
Templates ==
    { [kind |-> "response", status_code |-> 200, shape |-> "ok", credits_spent |-> c]
        : c \in 0..MaxCredit }
    \cup { [kind |-> "response", status_code |-> s, shape |-> "detail", credits_spent |-> 0]
        : s \in {200, 404, 500} }
    \cup { [kind |-> "exception", status_code |-> 0, shape |-> "detail", credits_spent |-> 0] }

ErrorBody == [keys |-> {"detail"}, credits_spent |-> 0, embeddings |-> <<>>]

\* The answer a template gives to one request: response.json() is body.
Answer(t, request) ==
    [kind |-> t.kind, status_code |-> t.status_code,
     body |-> IF t.shape = "ok"
              THEN [keys |-> {"credits_spent", "embeddings"},
                    credits_spent |-> t.credits_spent,
                    embeddings |-> [j \in 1..Len(request.payload) |->
                                        ServiceEmbed(request.payload[j])]]
              ELSE ErrorBody]

NoResponse == [kind |-> "none", status_code |-> 0, body |-> ErrorBody]

\* ------------------------------------------------------- Python results
NoValue ==
    [type |-> "None", keys |-> {}, credits_spent |-> 0, embeddings |-> <<>>,
     images |-> None]

\* The fields of a MidrasResponse object.
MidrasResponseFields == {"credits_spent", "embeddings", "images"}
Pending == [kind |-> "none", exc |-> "", detail |-> None, value |-> NoValue, found |-> None]
Return(v) == [kind |-> "return", exc |-> "", detail |-> None, value |-> v, found |-> None]
Raise(e, d) == [kind |-> "raise", exc |-> e, detail |-> d, value |-> NoValue, found |-> None]
Found(m) == [kind |-> "return", exc |-> "", detail |-> None, value |-> NoValue, found |-> Some(m)]

\* MidrasResponse(**body): credits_spent and embeddings are required fields
MidrasResponse(body) ==
    IF {"credits_spent", "embeddings"} \subseteq body.keys
    THEN Return([type |-> "MidrasResponse", keys |-> MidrasResponseFields,
                 credits_spent |-> body.credits_spent,
                 embeddings |-> body.embeddings, images |-> None])
    ELSE Raise("ValidationError", None)

\* response.json() as it is: a dict
JsonDict(body) ==
    [type |-> "dict", keys |-> body.keys, credits_spent |-> body.credits_spent,
     embeddings |-> body.embeddings, images |-> None]

\* validate_response with the checks left out: the body's fields are taken as
\* they come, whatever the status.
validate_response_unchecked(resp) ==
    Return([type |-> "MidrasResponse", keys |-> MidrasResponseFields,
            credits_spent |-> resp.body.credits_spent,
            embeddings |-> resp.body.embeddings, images |-> None])

\* AsyncMidras.validate_response
validate_response(resp) ==
    IF resp.status_code >= 500
    THEN Raise("ValueError", Some(resp.body))
    ELSE MidrasResponse(resp.body)

\* What embed_images / embed_queries / embed_text hands back for a response:
\* Midras returns response.json(), AsyncMidras returns validate_response(response).
EmbedResult(f, resp) ==
    IF f = "Midras" THEN Return(JsonDict(resp.body)) ELSE validate_response(resp)

\* The url the text request is posted to.
TextUrl(f) == IF f = "Midras" THEN "/embed/queries" ELSE ""

\* self.index.search(index, query_vector, quantity) of the vector store
search(idx, query_vector, qty) ==
    [index |-> idx, vector |-> query_vector, quantity |-> qty]

\* ---------------------------------------------------------------- Init
Init ==
    /\ op \in Ops
    /\ \E n \in 0..MaxPages :
           images = IF op \in {"embed_pdf", "embed_images"}
                    THEN [j \in 1..n |-> j] ELSE <<>>
    /\ batch_size \in IF op = "embed_pdf" THEN (0 - MaxNegBatch)..MaxBatch
                      ELSE {DefaultBatchSize}
    /\ include_images \in IF op = "embed_pdf" THEN BOOLEAN ELSE {FALSE}
    /\ \E n \in 0..MaxTexts :
           texts = IF op = "embed_text" THEN [j \in 1..n |-> j] ELSE <<>>
    /\ query_text \in IF op = "query" THEN 1..MaxTexts ELSE {0}
    /\ index = "docs"
    /\ quantity \in IF op = "query" THEN {1, DefaultQuantity} ELSE {DefaultQuantity}
    /\ script = <<>>
    /\ pc = [f \in Facades |-> "start"]
    /\ it = [f \in Facades |-> 1]
    /\ embeddings = [f \in Facades |-> <<>>]
    /\ total_spent = [f \in Facades |-> 0]
    /\ response = [f \in Facades |-> NoResponse]
    /\ requests = [f \in Facades |-> <<>>]
    /\ exchanges = [f \in Facades |-> <<>>]
    /\ folded = [f \in Facades |-> 0]
    /\ searches = [f \in Facades |-> <<>>]
    /\ outcome = [f \in Facades |-> Pending]

\* ------------------------------------------------------------- actions
\* self.client.post(url, json=request.model_dump(), timeout=180): the request
\* leaves and the caller waits for its answer.
Post(f, request) ==
    /\ requests' = [requests EXCEPT ![f] = Append(@, request)]
    /\ pc' = [pc EXCEPT ![f] = "await"]

Finish(f, o) ==
    /\ outcome' = [outcome EXCEPT ![f] = o]
    /\ pc' = [pc EXCEPT ![f] = "done"]

\* embed_pdf, up to the loop: images, embeddings = [], total_spent = 0
embed_pdf(f) ==
    /\ pc[f] = "start" /\ op = "embed_pdf"
    /\ embeddings' = [embeddings EXCEPT ![f] = <<>>]
    /\ total_spent' = [total_spent EXCEPT ![f] = 0]
    /\ it' = [it EXCEPT ![f] = 1]
    /\ pc' = [pc EXCEPT ![f] = "loop"]
    /\ UNCHANGED <<inputs, script, response, requests, exchanges, folded, searches, outcome>>

\* for i in range(0, len(images), batch_size): the next chunk's embed_images
\* call up to its post, or the return of the aggregate once the range is spent.
embed_pdf_loop(f) ==
    /\ pc[f] = "loop"
    /\ IF batch_size = 0
       THEN /\ Finish(f, Raise("ValueError", None))
            /\ UNCHANGED requests
       ELSE LET rng == Range(0, Len(images), batch_size) IN
            IF it[f] <= Len(rng)
            THEN LET i == rng[it[f]]
                     image_batch == Slice(images, i, i + batch_size)
                 IN /\ Post(f, MidrasRequest("/embed/images", "base64images",
                                             base64_encode_image_list(image_batch)))
                    /\ UNCHANGED outcome
            ELSE /\ Finish(f, Return([type |-> "MidrasResponse",
                                      keys |-> MidrasResponseFields,
                                      credits_spent |-> total_spent[f],
                                      embeddings |-> embeddings[f],
                                      images |-> IF include_images THEN Some(images)
                                                 ELSE None]))
                 /\ UNCHANGED requests
    /\ UNCHANGED <<inputs, script, locals, exchanges, searches>>

\* embed_images called directly, up to its post
embed_images(f) ==
    /\ pc[f] = "start" /\ op = "embed_images"
    /\ Post(f, MidrasRequest("/embed/images", "base64images",
                             base64_encode_image_list(images)))
    /\ UNCHANGED <<inputs, script, locals, exchanges, searches, outcome>>

\* embed_queries (Midras) / embed_text (AsyncMidras), up to its post
embed_text(f) ==
    /\ pc[f] = "start" /\ op = "embed_text"
    /\ Post(f, MidrasRequest(TextUrl(f), "queries", texts))
    /\ UNCHANGED <<inputs, script, locals, exchanges, searches, outcome>>

\* query (Midras) / query_text (AsyncMidras), up to the post of its embedding request
query(f) ==
    /\ pc[f] = "start" /\ op = "query"
    /\ Post(f, MidrasRequest(TextUrl(f), "queries", <<query_text>>))
    /\ UNCHANGED <<inputs, script, locals, exchanges, searches, outcome>>

\* The transport answers the request in flight: the k-th request of a facade
\* gets the k-th answer of the script, which is chosen when first needed.
TransportRespond(f) ==
    /\ pc[f] = "await"
    /\ LET k == Len(requests[f]) IN
       \E t \in Templates :
          /\ k <= Len(script) => t = script[k]
          /\ script' = IF k > Len(script) THEN Append(script, t) ELSE script
          /\ LET a == Answer(t, requests[f][k]) IN
             /\ exchanges' = [exchanges EXCEPT ![f] = Append(@, a)]
             /\ IF t.kind = "exception"
                THEN /\ Finish(f, Raise("TimeoutException", None))
                     /\ UNCHANGED response
                ELSE /\ response' = [response EXCEPT ![f] = a]
                     /\ pc' = [pc EXCEPT ![f] = "received"]
                     /\ UNCHANGED outcome
    /\ UNCHANGED <<inputs, it, embeddings, total_spent, folded, requests, searches>>

\* embed_images / embed_queries / embed_text called directly: its return
embed_return(f) ==
    /\ pc[f] = "received" /\ op \in {"embed_images", "embed_text"}
    /\ Finish(f, EmbedResult(f, response[f]))
    /\ UNCHANGED <<inputs, script, locals, requests, exchanges, searches>>

\* embed_pdf's loop body after the chunk's post: embed_images returns, then
\* embeddings.extend(response.embeddings); total_spent += response.credits_spent
embed_pdf_fold(f) ==
    /\ pc[f] = "received" /\ op = "embed_pdf"
    /\ LET r == EmbedResult(f, response[f]) IN
       IF r.kind = "raise"
       THEN /\ Finish(f, r)
            /\ UNCHANGED <<it, embeddings, total_spent, folded>>
       ELSE IF r.value.type # "MidrasResponse"
       THEN /\ Finish(f, Raise("AttributeError", None))
            /\ UNCHANGED <<it, embeddings, total_spent, folded>>
       ELSE /\ embeddings' = [embeddings EXCEPT ![f] = @ \o r.value.embeddings]
            /\ total_spent' = [total_spent EXCEPT ![f] = @ + r.value.credits_spent]
            /\ folded' = [folded EXCEPT ![f] = @ + 1]
            /\ it' = [it EXCEPT ![f] = @ + 1]
            /\ pc' = [pc EXCEPT ![f] = "loop"]
            /\ UNCHANGED outcome
    /\ UNCHANGED <<inputs, script, response, requests, exchanges, searches>>

\* query / query_text after the embedding's post: the embedding call returns,
\* query_vector = (...).embeddings[0], then self.index.search is called
query_search(f) ==
    /\ pc[f] = "received" /\ op = "query"
    /\ LET r == EmbedResult(f, response[f]) IN
       IF r.kind = "raise"
       THEN /\ Finish(f, r)
            /\ UNCHANGED searches
       ELSE IF r.value.type # "MidrasResponse"
       THEN /\ Finish(f, Raise("AttributeError", None))
            /\ UNCHANGED searches
       ELSE IF r.value.embeddings = <<>>
       THEN /\ Finish(f, Raise("IndexError", None))
            /\ UNCHANGED searches
       ELSE /\ searches' = [searches EXCEPT ![f] =
                                Append(@, search(index, r.value.embeddings[1], quantity))]
            /\ pc' = [pc EXCEPT ![f] = "search"]
            /\ UNCHANGED outcome
    /\ UNCHANGED <<inputs, script, locals, requests, exchanges>>

\* self.index.search returns and query returns its result
search_return(f) ==
    /\ pc[f] = "search"
    /\ Finish(f, Found(searches[f][Len(searches[f])]))
    /\ UNCHANGED <<inputs, script, locals, requests, exchanges, searches>>

Next ==
    \E f \in Facades :
        \/ embed_pdf(f)
        \/ embed_pdf_loop(f)
        \/ embed_images(f)
        \/ embed_text(f)
        \/ query(f)
        \/ TransportRespond(f)
        \/ embed_return(f)
        \/ embed_pdf_fold(f)
        \/ query_search(f)
        \/ search_return(f)

Spec == Init /\ [][Next]_vars

\* ------------------------------------------------- what the claims speak of
\* An exchange succeeded: a 200 answer whose body has the response fields.
Succeeded(a) ==
    /\ a.kind = "response"
    /\ a.status_code = 200
    /\ {"credits_spent", "embeddings"} \subseteq a.body.keys

AllSucceeded(f) == \A k \in 1..Len(exchanges[f]) : Succeeded(exchanges[f][k])

RECURSIVE ConcatEmbeddings(_)
ConcatEmbeddings(xs) ==
    IF xs = <<>> THEN <<>> ELSE Head(xs).body.embeddings \o ConcatEmbeddings(Tail(xs))

RECURSIVE SumCredits(_)
SumCredits(xs) ==
    IF xs = <<>> THEN 0 ELSE Head(xs).body.credits_spent + SumCredits(Tail(xs))

RECURSIVE ConcatPayloads(_)
ConcatPayloads(rs) ==
    IF rs = <<>> THEN <<>> ELSE Head(rs).payload \o ConcatPayloads(Tail(rs))

Ceil(n, b) == (n + b - 1) \div b

\* C1: for a non-empty page sequence and batch_size >= 1, when every chunk
\* request succeeded, embed_pdf of either facade returns, and the embeddings
\* it returns are the concatenation, in chunk order, of the chunk responses'
\* embeddings.
C1_EmbeddingsAreConcatenation ==
    \A f \in Facades :
        (/\ op = "embed_pdf" /\ pc[f] = "done"
         /\ images # <<>> /\ batch_size >= 1
         /\ AllSucceeded(f))
        => /\ outcome[f].kind = "return"
           /\ outcome[f].value.embeddings = ConcatEmbeddings(exchanges[f])

\* C2: for n pages and batch_size >= 1, embed_pdf whose chunk requests all
\* succeed has issued exactly ceil(n / batch_size) requests; their payloads
\* are contiguous slices covering the pages in order, each of batch_size
\* pages but the last, which holds between 1 and batch_size pages.
C2_ChunkCountAndShape ==
    \A f \in Facades :
        (/\ op = "embed_pdf" /\ pc[f] = "done"
         /\ batch_size >= 1
         /\ AllSucceeded(f))
        => /\ Len(requests[f]) = Ceil(Len(images), batch_size)
           /\ ConcatPayloads(requests[f]) = base64_encode_image_list(images)
           /\ \A k \in 1..Len(requests[f]) :
                 /\ Len(requests[f][k].payload) \in 1..batch_size
                 /\ k < Len(requests[f]) => Len(requests[f][k].payload) = batch_size

\* C3: when every chunk request of an embed_pdf call succeeded, the call
\* returns an aggregate whose credits_spent is the sum of the chunk responses'
\* credits_spent.
C3_CreditsAreSummed ==
    \A f \in Facades :
        (/\ op = "embed_pdf" /\ pc[f] = "done"
         /\ batch_size # 0
         /\ AllSucceeded(f))
        => /\ outcome[f].kind = "return"
           /\ outcome[f].value.credits_spent = SumCredits(exchanges[f])
           /\ outcome[f].value.credits_spent >= 0

\* C4: once a chunk request of an embed_pdf call has failed, no later chunk
\* is requested, nothing is returned to the caller, and the call ends in an
\* error.
C4_FailedChunkAborts ==
    \A f \in Facades :
        op = "embed_pdf" =>
            \A k \in 1..Len(exchanges[f]) :
                ~Succeeded(exchanges[f][k]) =>
                    /\ Len(requests[f]) = k
                    /\ pc[f] \in {"received", "done"}
                    /\ outcome[f].kind # "return"
                    /\ pc[f] = "done" => outcome[f].kind = "raise"

\* C4's case: the second of three chunks failed after the first was folded,
\* and the call ended in an error with the third chunk never requested.
C4_Witness ==
    \E f \in Facades :
        /\ op = "embed_pdf" /\ pc[f] = "done"
        /\ batch_size >= 1
        /\ Len(Range(0, Len(images), batch_size)) = 3
        /\ Len(exchanges[f]) = 2
        /\ Succeeded(exchanges[f][1]) /\ ~Succeeded(exchanges[f][2])
        /\ folded[f] = 1
        /\ outcome[f].kind = "raise"

\* C5: for every embedding operation of both facades, an answer with status
\* >= 500 surfaces as an error carrying the raw response body, and an answer
\* with a 4xx status surfaces as an error; neither is returned to the caller
\* as a response.  (The class of the error is not compared.)
C5_ErrorStatusesRaise ==
    \A f \in Facades :
        (/\ op \in {"embed_pdf", "embed_images", "embed_text"}
         /\ pc[f] = "done" /\ exchanges[f] # <<>>)
        => LET a == exchanges[f][Len(exchanges[f])] IN
           /\ (a.kind = "response" /\ a.status_code >= 500)
                 => (outcome[f].kind = "raise" /\ outcome[f].detail = Some(a.body))
           /\ (a.kind = "response" /\ a.status_code \in 400..499)
                 => outcome[f].kind = "raise"

\* C6: embed_pdf called with batch_size <= 0 issues no chunk request and ends
\* in an error, whatever the document.  (The class of the error is not
\* compared.)
C6_NonPositiveBatchSizeFails ==
    \A f \in Facades :
        (op = "embed_pdf" /\ batch_size <= 0)
        => /\ requests[f] = <<>>
           /\ pc[f] = "done" => outcome[f].kind = "raise"

\* C7: embed_images([]) and embed_pdf on a zero-page document return a
\* response with credits_spent = 0 and no embeddings, not an error (stated
\* here only for calls in which the transport answered whatever was posted).
C7_EmptyInputReturnsEmpty ==
    \A f \in Facades :
        (/\ pc[f] = "done" /\ images = <<>>
         /\ \A k \in 1..Len(exchanges[f]) : exchanges[f][k].kind = "response"
         /\ \/ op = "embed_images"
            \/ op = "embed_pdf" /\ batch_size >= 1)
        => /\ outcome[f].kind = "return"
           /\ {"credits_spent", "embeddings"} \subseteq outcome[f].value.keys
           /\ outcome[f].value.credits_spent = 0
           /\ outcome[f].value.embeddings = <<>>

\* C8: called with the same inputs and answered by the same sequence of
\* transport responses, the two facades issue the same requests to the same
\* endpoints and end alike: the same response returned, or the same kind of
\* error raised.
C8_FacadesEquivalent ==
    (\A f \in Facades : pc[f] = "done")
    => /\ requests["Midras"] = requests["AsyncMidras"]
       /\ searches["Midras"] = searches["AsyncMidras"]
       /\ outcome["Midras"].kind = outcome["AsyncMidras"].kind
       /\ outcome["Midras"].exc = outcome["AsyncMidras"].exc
       /\ outcome["Midras"].found = outcome["AsyncMidras"].found
       /\ outcome["Midras"].value.keys \cap {"credits_spent", "embeddings"}
             = outcome["AsyncMidras"].value.keys \cap {"credits_spent", "embeddings"}
       /\ outcome["Midras"].value.credits_spent = outcome["AsyncMidras"].value.credits_spent
       /\ outcome["Midras"].value.embeddings = outcome["AsyncMidras"].value.embeddings

\* C9: the compound query issues one text-embedding request whose payload is
\* [query]; search is not called before that request is answered nor when it
\* fails; when it succeeds search is called once with the index name, the
\* sole embedding of the response and the quantity, and its result returned.
C9_QueryEmbedsThenSearches ==
    \A f \in Facades :
        op = "query" =>
            /\ pc[f] # "start" =>
                  /\ Len(requests[f]) = 1
                  /\ requests[f][1].kind = "queries"
                  /\ requests[f][1].payload = <<query_text>>
            /\ (exchanges[f] = <<>> \/ ~AllSucceeded(f)) => searches[f] = <<>>
            /\ (pc[f] = "done" /\ AllSucceeded(f)) =>
                  /\ searches[f] = <<search(index, ServiceEmbed(query_text), quantity)>>
                  /\ outcome[f] = Found(searches[f][1])

\* C10: in the blocking facade embed_pdf has at most one chunk request in
\* flight, issues a chunk's request only after every earlier chunk's response
\* was folded into the aggregate, and, when every request succeeds, has
\* requested each chunk exactly once.
C10_BlockingIsSequential ==
    LET f == "Midras"
        rng == Range(0, Len(images), batch_size)
    IN (op = "embed_pdf" /\ batch_size >= 1) =>
        /\ Len(requests[f]) - Len(exchanges[f]) \in {0, 1}
        /\ pc[f] = "await" => folded[f] = Len(requests[f]) - 1
        /\ (pc[f] = "done" /\ AllSucceeded(f)) =>
              \A c \in 1..Len(rng) :
                  Cardinality({k \in 1..Len(requests[f]) :
                      requests[f][k].payload =
                          base64_encode_image_list(
                              Slice(images, rng[c], rng[c] + batch_size))}) = 1

====
